---- MODULE Spec2Model ----
(***************************************************************************)
(* AgentBeats GitHub App: the webhook handlers of .github/app.             *)
(*                                                                         *)
(* Every inbound event is handled by one coroutine that may suspend at     *)
(* each awaited call (database query, GitHub call).  A coroutine is a slot *)
(* of `proc`; one action is the code between two suspension points,        *)
(* together with the awaited call it ends in.  The database tables and the *)
(* GitHub repositories are shared by all coroutines.                       *)
(*                                                                         *)
(* Strings that the code splits or joins ("owner/repo/...") are sequences  *)
(* of tokens, the separator "/" being a token of its own.                  *)
(***************************************************************************)
EXTENDS Integers, Sequences, FiniteSets, Bags, TLC

\* ---------------------------------------------------------------- bounds
NumProcs == 2              \* coroutines that may be in flight together
MaxRunDeliveries == 2      \* workflow_run events delivered in one behaviour
MaxInstallDeliveries == 2  \* installation events delivered in one behaviour

Procs == 1..NumProcs

\* Python's None, where a dict or object, a plain string, or a string of
\* tokens is expected (no token sequence of the inputs holds the token "#None").
None == [none |-> TRUE]
NoneStr == "None"
NoneTokens == <<"#None">>

\* ---------------------------------------------------------------- strings
\* str.split("/") on a token sequence: the pieces between the separators
\* (a leading, trailing or doubled separator gives an empty piece).
RECURSIVE SplitFrom(_, _, _)
SplitFrom(s, k, cur) ==
    IF k > Len(s) THEN <<cur>>
    ELSE IF s[k] = "/" THEN <<cur>> \o SplitFrom(s, k + 1, <<>>)
    ELSE SplitFrom(s, k + 1, Append(cur, s[k]))

Split(s) == SplitFrom(s, 1, <<>>)

\* f"{parts[0]}/{parts[1]}"
OwnerRepo(parts) == parts[1] \o <<"/">> \o parts[2]

\* A branch name that leaves the run id out
BranchName_NoRunId(run_id) == <<"agentbeats/submission-", 0>>

\* f"agentbeats/submission-{run_id}"
BranchName(run_id) == <<"agentbeats/submission-", run_id>>

\* ---------------------------------------------------------------- inputs
NameAX == <<"a", "/", "x">>
NameBY == <<"b", "/", "y">>
NameAZ == <<"a", "/", "z">>
PurpleRepo == <<"p", "/", "agent">>

WorkflowFile == <<"/", ".github", "/", "workflows", "/", "runner.yml">>
PathAX == NameAX \o WorkflowFile
PathBY == NameBY \o WorkflowFile
PathAZ == NameAZ \o WorkflowFile
PathSolo == <<"solo">>

Ref(path) == [path |-> path]

RunIds == {1, 2}

RunPayload(action, conclusion, run_id, referenced) ==
    [action |-> action,
     workflow_run |-> [id |-> run_id, conclusion |-> conclusion,
                       referenced_workflows |-> referenced],
     repository |-> [full_name |-> PurpleRepo],
     installation |-> [id |-> 20]]

RunPayloads ==
    { RunPayload("completed", "success", 1, <<Ref(PathSolo), Ref(PathBY), Ref(PathAX)>>),
      RunPayload("completed", "success", 2, <<Ref(PathAX)>>) }
    \cup { RunPayload("requested", "success", 1, <<Ref(PathAX)>>),
           RunPayload("completed", "failure", 1, <<Ref(PathAX)>>),
           RunPayload("completed", "success", 1, <<>>),
           RunPayload("completed", "success", 1, <<Ref(PathSolo)>>) }


\* dict.get(key) and "key in dict" on a JSON object / payload
Get(d, key, default) == IF key \in DOMAIN d THEN d[key] ELSE default
EmptyDict == [k \in {} |-> None]

\* Installation payloads: repositories carry {id, full_name, fork}.
Repo(id, full_name, fork) == [id |-> id, full_name |-> full_name, fork |-> fork]

InstallPayloads ==
    { [action |-> "created", installation |-> [id |-> 10],
       repositories |-> <<Repo(2, NameBY, TRUE), Repo(1, NameAX, FALSE)>>],
      [action |-> "created", installation |-> [id |-> 10],
       repositories |-> <<Repo(1, NameAZ, FALSE)>>],
      [action |-> "added", installation |-> [id |-> 10],
       repositories_added |-> <<Repo(1, NameAX, FALSE), Repo(2, NameBY, FALSE)>>],
      [action |-> "deleted", installation |-> [id |-> 10],
       repositories |-> <<Repo(1, NameAX, FALSE)>>],
      [action |-> "created", installation |-> [id |-> 10]] }

\* What the GitHub artifact API may answer for a run.
ArtifactLists ==
    { [artifacts |-> <<>>],
      [artifacts |-> <<[name |-> "logs", id |-> 7]>>],
      [artifacts |-> <<[name |-> "logs", id |-> 7],
                       [name |-> "agentbeats-submission", id |-> 8]>>] }

\* Archive entries: a name (token sequence) and the file's content, which is
\* either the JSON text of a document, text that is no JSON, or plain text.
Json(doc) == [kind |-> "json", doc |-> doc]
BadJson == [kind |-> "garbage"]
Text(t) == [kind |-> "text", text |-> t]
Entry(name, content) == [name |-> name, content |-> content]

Results1 == [score |-> 1]

\* "2026-01-02T03:04:05Z", character by character
Timestamp1 ==
    << "2", "0", "2", "6", "-", "0", "1", "-", "0", "2", "T",
       "0", "3", ":", "0", "4", ":", "0", "5", "Z" >>

Manifest(target) ==
    [purple_agent_owner |-> "p", purple_agent_repo |-> PurpleRepo,
     run_id |-> 1, run_url |-> "url", timestamp |-> Timestamp1,
     target_leaderboard |-> target]

ArchiveFor(target) ==
    << Entry(<<"results.json">>, Json(Results1)),
       Entry(<<"run", "/", "manifest.json">>, Json(Manifest(target))),
       Entry(<<"scenario.toml">>, Text("a=1")) >>

Archives ==
    { ArchiveFor(NameAX),
      ArchiveFor(NameBY),
      \* no manifest at all
      << Entry(<<"results.json">>, Json(Results1)) >>,
      \* manifest without the owner field, no results
      << Entry(<<"manifest.json">>, Json([target_leaderboard |-> NameAX])) >>,
      \* no results document
      << Entry(<<"manifest.json">>, Json(Manifest(NameAX))),
         Entry(<<"scenario.toml">>, Text("a=1")) >>,
      \* manifest that is no JSON
      << Entry(<<"manifest.json">>, BadJson) >> }

\* The bytes download_artifact returns: a zip archive, or nothing at all.
Zip(entries) == [zip |-> entries]
EmptyBytes == [empty |-> TRUE]
Downloads == { Zip(a) : a \in Archives } \cup {EmptyBytes}

\* str.endswith on token sequences
EndsWith(name, suffix) ==
    /\ Len(name) >= Len(suffix)
    /\ SubSeq(name, Len(name) - Len(suffix) + 1, Len(name)) = suffix

\* zf.read(name): the content of the archive member of that name; of several
\* members of one name, the last one
RECURSIVE ZipRead(_, _, _)
ZipRead(zf, name, k) ==
    IF zf[k].name = name THEN zf[k].content ELSE ZipRead(zf, name, k - 1)

\* zf.read(name).decode("utf-8")
Decode(content) == IF content.kind = "text" THEN content.text ELSE "raw"

\* parse_artifact: the loop over zf.namelist(); "raises" records a
\* json.loads failure, after which nothing more is read.
RECURSIVE ParseFrom(_, _, _)
ParseFrom(zf, k, acc) ==
    IF k > Len(zf) \/ acc.raises THEN acc
    ELSE LET name == zf[k].name
             content == ZipRead(zf, name, Len(zf))
         IN
         IF EndsWith(name, <<"results.json">>) THEN
             IF content.kind = "json"
             THEN ParseFrom(zf, k + 1, [acc EXCEPT !.results = content.doc])
             ELSE [acc EXCEPT !.raises = TRUE]
         ELSE IF EndsWith(name, <<"manifest.json">>) THEN
             IF content.kind = "json"
             THEN ParseFrom(zf, k + 1, [acc EXCEPT !.manifest = content.doc])
             ELSE [acc EXCEPT !.raises = TRUE]
         ELSE IF EndsWith(name, <<"scenario.toml">>) THEN
             ParseFrom(zf, k + 1, [acc EXCEPT !.scenario = Decode(content)])
         ELSE ParseFrom(zf, k + 1, acc)

\* An extractor that keeps the first match of each document
RECURSIVE FirstMatches(_, _, _)
FirstMatches(zf, k, seen) ==
    IF k > Len(zf) THEN <<>>
    ELSE LET suffix == IF Len(zf[k].name) = 0 THEN <<>>
                       ELSE <<zf[k].name[Len(zf[k].name)]>>
         IN  IF suffix \in seen THEN FirstMatches(zf, k + 1, seen)
             ELSE <<zf[k]>> \o FirstMatches(zf, k + 1, seen \cup {suffix})

parse_artifact_FirstMatch(zf) ==
    ParseFrom(FirstMatches(zf, 1, {}), 1,
              [results |-> EmptyDict, manifest |-> EmptyDict,
               scenario |-> "", raises |-> FALSE])

parse_artifact(zf) ==
    ParseFrom(zf, 1, [results |-> EmptyDict, manifest |-> EmptyDict,
                      scenario |-> "", raises |-> FALSE])


\* ---------------------------------------------------------------- state
VARIABLES
    leaderboards,   \* table leaderboards: a bag of rows
    submissions,    \* table submissions: a bag of rows
    branches,       \* GitHub: branches created, [repo, name]
    commits,        \* GitHub: commits made, [repo, branch, files, installation_id]
    pulls,          \* GitHub: pull requests opened
    proc,           \* the coroutines handling one delivery each
    delivered       \* deliveries made so far, per event kind

vars == <<leaderboards, submissions, branches, commits, pulls,
          proc, delivered>>

github == <<branches, commits, pulls>>
tables == <<leaderboards, submissions>>

\* A coroutine slot with no delivery in it.
Idle ==
    [kind |-> "idle", pc |-> "idle", payload |-> None,
     \* handle_workflow_run / find_leaderboard locals
     i |-> 0, leaderboard |-> None, artifacts |-> None, artifact_id |-> 0,
     results |-> None, manifest |-> None, scenario |-> NoneStr, pr_url |-> None,
     \* handle_installation locals
     j |-> 0, existing |-> None, registered |-> <<>>,
     \* the handler's return value, or the exception that left it
     result |-> None,
     \* history of this invocation
     looked |-> <<>>,        \* full names looked up by find_leaderboard
     calls |-> <<>>,         \* GitHub calls made
     inserted |-> <<>>,      \* the Submission rows this invocation inserted
     created |-> <<>>,       \* the Leaderboard rows this invocation inserted
     updated |-> <<>>,       \* the renames this invocation made
     seen |-> <<>>,          \* per repository: what the installation loop met
     dupAtStart |-> FALSE]   \* a Submission for the run id existed on delivery

Init ==
    /\ leaderboards = EmptyBag
    /\ submissions = EmptyBag
    /\ branches = {}
    /\ commits = {}
    /\ pulls = {}
    /\ proc = [p \in Procs |-> Idle]
    /\ delivered = [workflow_run |-> 0, installation |-> 0]

\* Handler results; a reason is a string of tokens (one of them is an f-string).
Ignored(reason) == [status |-> "ignored", reason |-> reason]
Error(reason) == [status |-> "error", reason |-> reason]
Rejected(reason) == [status |-> "rejected", reason |-> reason]
Ok(pr_url) == [status |-> "ok", pr_url |-> pr_url]
Raised(what) == [status |-> "exception", detail |-> what]

\* The handler returns (or raises): the coroutine is left with its result.
Finish(self, p, result) ==
    proc' = [proc EXCEPT ![self] = [p EXCEPT !.pc = "done", !.result = result]]

\* ---------------------------------------------------------------- database
\* A table is the bag of its rows: the SERIAL id column, which no query reads,
\* is left out, so two rows that agree on every other column are two copies.
\* The tables' DDL lives in the migrations directory; the queries below are
\* plain SELECT / INSERT / UPDATE with no ON CONFLICT clause and the design
\* notes describe the duplicate check as having no uniqueness guarantee.
UniqueRunIdConstraint == FALSE
UniqueRepoIdConstraint == FALSE

get_leaderboard_by_repo_id(github_repo_id) ==
    { row \in BagToSet(leaderboards) : row.github_repo_id = github_repo_id }

get_leaderboard_by_repo_name(repo_full_name) ==
    { row \in BagToSet(leaderboards) : row.repo_full_name = repo_full_name }

get_submission_by_run_id(workflow_run_id) ==
    { row \in BagToSet(submissions) : row.workflow_run_id = workflow_run_id }

\* "json.dumps(results_json) if results_json else None"
StoredResults(results_json) ==
    IF results_json = None THEN None
    ELSE IF DOMAIN results_json = {} THEN None
    ELSE Json(results_json)

create_submission(run_id, leaderboard_repo, purple_repo, purple_owner, status, error_message, pr_url, pr_number, results_json) ==
    [workflow_run_id |-> run_id,
     leaderboard_repo |-> leaderboard_repo, purple_repo |-> purple_repo,
     purple_owner |-> purple_owner, status |-> status,
     error_message |-> error_message, pr_url |-> pr_url,
     pr_number |-> pr_number, results_json |-> StoredResults(results_json)]

\* A recorder that writes every row as submitted
record_submission_AlwaysSubmitted(run_id, leaderboard_repo, purple_repo, status, error, pr_url, results) ==
    create_submission(run_id, leaderboard_repo, purple_repo,
                      Split(purple_repo)[1], "submitted", error, pr_url, None, results)

\* A recorder that drops the pull request's URL
record_submission_NoUrl(run_id, leaderboard_repo, purple_repo, status, error, pr_url, results) ==
    create_submission(run_id, leaderboard_repo, purple_repo,
                      Split(purple_repo)[1], status, error, None, None, results)

\* record_submission: the row it has create_submission insert.
record_submission(run_id, leaderboard_repo, purple_repo, status, error, pr_url, results) ==
    create_submission(run_id, leaderboard_repo, purple_repo,
                      Split(purple_repo)[1], status, error, pr_url, None, results)

\* ---------------------------------------------------------------- find_leaderboard
\* The first reference at index >= k whose path has at least two parts
\* (the loop's "continue"), or Len + 1 when there is none.
RECURSIVE NextLookup(_, _)
NextLookup(refs, k) ==
    IF k > Len(refs) THEN k
    ELSE IF Len(Split(refs[k].path)) < 2 THEN NextLookup(refs, k + 1)
    ELSE k

RefName(ref) == OwnerRepo(Split(ref.path))

Run(p) == p.payload.workflow_run
Referenced(p) == Get(Run(p), "referenced_workflows", <<>>)

\* ---------------------------------------------------------------- handle_workflow_run
\* Lines 27-42: the checks before the first await.
StartWorkflowRun(self, payload) ==
    /\ proc[self].kind = "idle"
    /\ delivered.workflow_run < MaxRunDeliveries
    /\ delivered' = [delivered EXCEPT !.workflow_run = @ + 1]
    /\ LET p == [Idle EXCEPT !.kind = "workflow_run", !.payload = payload,
                             !.dupAtStart =
                                 get_submission_by_run_id(payload.workflow_run.id) # {}]
           run == payload.workflow_run
           referenced == Get(run, "referenced_workflows", <<>>)
           first == NextLookup(referenced, 1)
       IN  IF Get(payload, "action", NoneStr) # "completed"
           THEN Finish(self, p, Ignored(<<"not completed">>))
           ELSE IF Get(run, "conclusion", NoneStr) # "success"
           THEN Finish(self, p, Ignored(<<"conclusion=", Get(run, "conclusion", NoneStr)>>))
           ELSE IF referenced = <<>>
           THEN Finish(self, p, Ignored(<<"no reusable workflows">>))
           ELSE IF first > Len(referenced)
           THEN Finish(self, p, Ignored(<<"no registered leaderboard">>))
           ELSE proc' = [proc EXCEPT ![self] =
                            [p EXCEPT !.pc = "find_leaderboard", !.i = first]]
    /\ UNCHANGED <<tables, github>>

\* A find_leaderboard whose loop goes on after a hit: the last match wins
FindLeaderboard_LastMatch(self) ==
    LET p == proc[self]
        refs == Referenced(p)
        name == RefName(refs[p.i])
        hits == get_leaderboard_by_repo_name(name)
        q == [p EXCEPT !.looked = Append(@, name)]
        next == NextLookup(refs, p.i + 1)
        After(r) ==
            IF next <= Len(refs)
            THEN proc' = [proc EXCEPT ![self] = [r EXCEPT !.i = next]]
            ELSE IF r.leaderboard # None
            THEN proc' = [proc EXCEPT ![self] = [r EXCEPT !.pc = "check_duplicate"]]
            ELSE Finish(self, r, Ignored(<<"no registered leaderboard">>))
    IN  /\ p.kind = "workflow_run"
        /\ p.pc = "find_leaderboard"
        /\ \/ \E row \in hits : After([q EXCEPT !.leaderboard = row])
           \/ hits = {} /\ After(q)
        /\ UNCHANGED <<tables, github, delivered>>

\* Lines 85-95: one lookup of find_leaderboard, then lines 43-46.
FindLeaderboard(self) ==
    LET p == proc[self]
        refs == Referenced(p)
        name == RefName(refs[p.i])
        hits == get_leaderboard_by_repo_name(name)
        q == [p EXCEPT !.looked = Append(@, name)]
        next == NextLookup(refs, p.i + 1)
    IN  /\ p.kind = "workflow_run"
        /\ p.pc = "find_leaderboard"
        /\ \/ \E row \in hits :
                  proc' = [proc EXCEPT ![self] =
                              [q EXCEPT !.leaderboard = row, !.pc = "check_duplicate"]]
           \/ /\ hits = {}
              /\ IF next > Len(refs)
                 THEN Finish(self, q, Ignored(<<"no registered leaderboard">>))
                 ELSE proc' = [proc EXCEPT ![self] = [q EXCEPT !.i = next]]
        /\ UNCHANGED <<tables, github, delivered>>

\* A handler without the idempotency check
CheckDuplicate_Unchecked(self) ==
    /\ proc[self].kind = "workflow_run"
    /\ proc[self].pc = "check_duplicate"
    /\ proc' = [proc EXCEPT ![self].pc = "get_artifacts"]
    /\ UNCHANGED <<tables, github, delivered>>

\* A handler that lists the run's artifacts before the idempotency check
CheckDuplicate_AfterListing(self) ==
    LET p == proc[self]
        q == [p EXCEPT !.calls = Append(@, [op |-> "get_artifacts",
                                   installation_id |-> p.payload.installation.id,
                                   repo |-> p.payload.repository.full_name])]
    IN  /\ p.kind = "workflow_run"
        /\ p.pc = "check_duplicate"
        /\ IF get_submission_by_run_id(Run(p).id) # {}
           THEN Finish(self, q, Ignored(<<"duplicate">>))
           ELSE proc' = [proc EXCEPT ![self] = [q EXCEPT !.pc = "download_artifact",
                                                         !.artifact_id = 8]]
        /\ UNCHANGED <<tables, github, delivered>>

\* Lines 46-50: the idempotency check.
CheckDuplicate(self) ==
    LET p == proc[self] IN
    /\ p.kind = "workflow_run"
    /\ p.pc = "check_duplicate"
    /\ IF get_submission_by_run_id(Run(p).id) # {}
       THEN Finish(self, p, Ignored(<<"duplicate">>))
       ELSE proc' = [proc EXCEPT ![self].pc = "get_artifacts"]
    /\ UNCHANGED <<tables, github, delivered>>


\* ---------------------------------------------------------------- GitHub
\* The repository a full name resolves to (a renamed repository keeps
\* answering to its old name).
RepoOfName(full_name) ==
    IF full_name \in {NameAX, NameAZ} THEN 1
    ELSE IF full_name = NameBY THEN 2
    ELSE 0

Call(op, installation_id, repo) ==
    [op |-> op, installation_id |-> installation_id, repo |-> repo]

BranchKey(repo_full_name, branch_name) ==
    [repo |-> RepoOfName(repo_full_name), name |-> branch_name]

\* str.replace(old, new) and s[:n] on a character sequence
Replace(str, old, new) == [k \in 1..Len(str) |-> IF str[k] = old THEN new ELSE str[k]]
Prefix(str, n) == SubSeq(str, 1, IF Len(str) < n THEN Len(str) ELSE n)

\* manifest["timestamp"].replace(":", "-").replace("T", "-")[:15]
NormalTimestamp(ts) == Prefix(Replace(Replace(ts, ":", "-"), "T", "-"), 15)

\* f"submissions/{purple_owner}/{timestamp}"
SubmissionPath(manifest) ==
    <<"submissions", "/", manifest.purple_agent_owner, "/">>
        \o NormalTimestamp(manifest.timestamp)

\* The files dict of create_submission_pr: path -> content
Files(manifest, results, scenario) ==
    LET path == SubmissionPath(manifest) IN
    { [path |-> path \o <<"/", "results.json">>, content |-> Json(results)],
      [path |-> path \o <<"/", "manifest.json">>, content |-> Json(manifest)],
      [path |-> path \o <<"/", "scenario.toml">>, content |-> Text(scenario)] }

\* The fields format_pr_body reads from the manifest
BodyFields == {"purple_agent_owner", "purple_agent_repo", "run_id", "run_url"}

PullUrl(repo_full_name, number) == [repo |-> repo_full_name, number |-> number]

\* ---------------------------------------------------------------- handle_workflow_run, continued
\* A search that takes the first artifact, whatever its name
FirstSubmissionArtifact_AnyName(artifacts, k) ==
    IF k > Len(artifacts) THEN 0 ELSE artifacts[k].id

\* download_submission_artifact, lines 100-106: the first artifact with the name.
RECURSIVE FirstSubmissionArtifact(_, _)
FirstSubmissionArtifact(artifacts, k) ==
    IF k > Len(artifacts) THEN 0
    ELSE IF artifacts[k].name = "agentbeats-submission" THEN artifacts[k].id
    ELSE FirstSubmissionArtifact(artifacts, k + 1)

\* A handler that catches the exception and reports an error instead
Raise_Caught(self, p, what) == Finish(self, p, Error(<<what>>))

\* A collaborator call (network, GitHub, database) may raise at any time.
Raise(self, p, what) == Finish(self, p, Raised(what))

\* Line 100: get_artifacts answers.
GetArtifacts(self) ==
    LET p == proc[self]
        q == [p EXCEPT !.calls = Append(@, Call("get_artifacts",
                                   p.payload.installation.id,
                                   p.payload.repository.full_name))]
    IN  /\ p.kind = "workflow_run"
        /\ p.pc = "get_artifacts"
        /\ \/ /\ \E answer \in ArtifactLists :
                    LET id == FirstSubmissionArtifact(Get(answer, "artifacts", <<>>), 1) IN
                    IF id = 0
                    THEN proc' = [proc EXCEPT ![self] =
                                     [q EXCEPT !.pc = "record_failed", !.artifacts = answer]]
                    ELSE proc' = [proc EXCEPT ![self] =
                                     [q EXCEPT !.pc = "download_artifact", !.artifacts = answer,
                                               !.artifact_id = id]]
           \/ Raise(self, q, "get_artifacts")
        /\ UNCHANGED <<tables, github, delivered>>

\* A handler without the target check
TargetMismatch_Never(manifest, leaderboard) == FALSE

\* A comparison that lets a manifest without the field through
TargetMismatch_WhenDeclared(manifest, leaderboard) ==
    /\ "target_leaderboard" \in DOMAIN manifest
    /\ manifest.target_leaderboard # leaderboard.repo_full_name

\* Line 59: manifest.get("target_leaderboard") != leaderboard.repo_full_name
TargetMismatch(manifest, leaderboard) ==
    Get(manifest, "target_leaderboard", NoneTokens) # leaderboard.repo_full_name

\* Line 104: download_artifact answers; then lines 53-63 and 136-139.
DownloadArtifact(self) ==
    LET p == proc[self]
        q == [p EXCEPT !.calls = Append(@, Call("download_artifact",
                                   p.payload.installation.id,
                                   p.payload.repository.full_name))]
    IN  /\ p.kind = "workflow_run"
        /\ p.pc = "download_artifact"
        /\ \/ /\ \E data \in Downloads :
                    IF data = EmptyBytes
                    THEN proc' = [proc EXCEPT ![self] = [q EXCEPT !.pc = "record_failed"]]
                    ELSE LET parsed == parse_artifact(data.zip)
                             r == [q EXCEPT !.results = parsed.results,
                                            !.manifest = parsed.manifest,
                                            !.scenario = parsed.scenario]
                         IN  IF parsed.raises
                             THEN Finish(self, q, Raised("JSONDecodeError"))
                             ELSE IF TargetMismatch(parsed.manifest, p.leaderboard)
                             THEN proc' = [proc EXCEPT ![self] =
                                              [r EXCEPT !.pc = "record_rejected"]]
                             ELSE IF ~ ({"purple_agent_owner", "timestamp"}
                                            \subseteq DOMAIN parsed.manifest)
                             THEN Finish(self, r, Raised("KeyError"))
                             ELSE proc' = [proc EXCEPT ![self] =
                                              [r EXCEPT !.pc = "create_branch"]]
           \/ Raise(self, q, "download_artifact")
        /\ UNCHANGED <<tables, github, delivered>>

\* An INSERT that replaces the rows of the same run id
InsertSubmission_Upsert(self, p, row, result) ==
    /\ submissions' =
           [r \in BagToSet(submissions) \ get_submission_by_run_id(row.workflow_run_id)
                |-> submissions[r]] (+) SetToBag({row})
    /\ Finish(self, [p EXCEPT !.inserted = Append(@, row)], result)

\* create_submission: the INSERT and what the handler returns after it.
InsertSubmission(self, p, row, result) ==
    IF UniqueRunIdConstraint /\ get_submission_by_run_id(row.workflow_run_id) # {}
    THEN /\ Finish(self, p, Raised("UniqueViolationError"))
         /\ UNCHANGED submissions
    ELSE /\ submissions' = submissions (+) SetToBag({row})
         /\ Finish(self, [p EXCEPT !.inserted = Append(@, row)], result)

\* A handler that reports the missing artifact without recording it
RecordFailed_NoRow(self) ==
    /\ proc[self].kind = "workflow_run"
    /\ proc[self].pc = "record_failed"
    /\ Finish(self, proc[self], Error(<<"no artifact">>))
    /\ UNCHANGED <<tables, github, delivered>>

\* Lines 54-55
RecordFailed(self) ==
    LET p == proc[self] IN
    /\ p.kind = "workflow_run"
    /\ p.pc = "record_failed"
    /\ \/ /\ InsertSubmission(self, p,
                 record_submission(Run(p).id,
                     p.leaderboard.repo_full_name, p.payload.repository.full_name,
                     "failed", "No artifact found", None, None),
                 Error(<<"no artifact">>))
       \/ Raise(self, p, "create_submission") /\ UNCHANGED submissions
    /\ UNCHANGED <<leaderboards, github, delivered>>

\* Lines 60-61
RecordRejected(self) ==
    LET p == proc[self] IN
    /\ p.kind = "workflow_run"
    /\ p.pc = "record_rejected"
    /\ \/ /\ InsertSubmission(self, p,
                 record_submission(Run(p).id,
                     p.leaderboard.repo_full_name, p.payload.repository.full_name,
                     "rejected", "Target mismatch", None, None),
                 Rejected(<<"target mismatch">>))
       \/ Raise(self, p, "create_submission") /\ UNCHANGED submissions
    /\ UNCHANGED <<leaderboards, github, delivered>>

\* A collaborator that lets create_branch pass when the branch exists
CreateBranch_Existing(self) ==
    LET p == proc[self]
        lb == p.leaderboard
        key == BranchKey(lb.repo_full_name, BranchName(Run(p).id))
        q == [p EXCEPT !.calls = Append(@, Call("create_branch",
                                   lb.installation_id, lb.repo_full_name))]
    IN  /\ p.kind = "workflow_run"
        /\ p.pc = "create_branch"
        /\ branches' = branches \cup {key}
        /\ proc' = [proc EXCEPT ![self] = [q EXCEPT !.pc = "commit_files"]]
        /\ UNCHANGED <<tables, commits, pulls, delivered>>

\* Lines 141-146: create_branch
CreateBranch(self) ==
    LET p == proc[self]
        lb == p.leaderboard
        key == BranchKey(lb.repo_full_name, BranchName(Run(p).id))
        q == [p EXCEPT !.calls = Append(@, Call("create_branch",
                                   lb.installation_id, lb.repo_full_name))]
    IN  /\ p.kind = "workflow_run"
        /\ p.pc = "create_branch"
        /\ \/ /\ key \notin branches
              /\ branches' = branches \cup {key}
              /\ proc' = [proc EXCEPT ![self] = [q EXCEPT !.pc = "commit_files"]]
           \/ /\ key \in branches
              /\ Finish(self, q, Raised("Reference already exists"))
              /\ UNCHANGED branches
           \/ Raise(self, q, "create_branch") /\ UNCHANGED branches
        /\ UNCHANGED <<tables, commits, pulls, delivered>>

\* A publisher that deletes the branch again when the commit fails
CommitFiles_Rollback(self) ==
    LET p == proc[self]
        lb == p.leaderboard
        key == BranchKey(lb.repo_full_name, BranchName(Run(p).id))
        q == [p EXCEPT !.calls = Append(@, Call("commit_files",
                                   lb.installation_id, lb.repo_full_name))]
    IN  /\ p.kind = "workflow_run"
        /\ p.pc = "commit_files"
        /\ branches' = branches \ {key}
        /\ Finish(self, q, Raised("commit_files"))
        /\ UNCHANGED <<tables, commits, pulls, delivered>>

\* Lines 148-160: commit_files; then the arguments of create_pull_request
CommitFiles(self) ==
    LET p == proc[self]
        lb == p.leaderboard
        key == BranchKey(lb.repo_full_name, BranchName(Run(p).id))
        q == [p EXCEPT !.calls = Append(@, Call("commit_files",
                                   lb.installation_id, lb.repo_full_name))]
    IN  /\ p.kind = "workflow_run"
        /\ p.pc = "commit_files"
        /\ \/ /\ commits' = commits \cup
                     { [branch |-> key,
                        files |-> Files(p.manifest, p.results, p.scenario),
                        message |-> <<"[AgentBeats] Submission from ",
                                      p.manifest.purple_agent_owner>>] }
              /\ IF BodyFields \subseteq DOMAIN p.manifest
                 THEN proc' = [proc EXCEPT ![self] = [q EXCEPT !.pc = "create_pull_request"]]
                 ELSE Finish(self, q, Raised("KeyError"))
           \/ Raise(self, q, "commit_files") /\ UNCHANGED commits
        /\ UNCHANGED <<tables, branches, pulls, delivered>>

\* Lines 162-171: create_pull_request; its html_url is what is returned
CreatePullRequest(self) ==
    LET p == proc[self]
        lb == p.leaderboard
        repo == RepoOfName(lb.repo_full_name)
        \* GitHub numbers a repository's pull requests 1, 2, ...
        number == Cardinality({ pr \in pulls : pr.repo = repo }) + 1
        url == PullUrl(lb.repo_full_name, number)
        q == [p EXCEPT !.calls = Append(@, Call("create_pull_request",
                                   lb.installation_id, lb.repo_full_name))]
    IN  /\ p.kind = "workflow_run"
        /\ p.pc = "create_pull_request"
        /\ \/ /\ pulls' = pulls \cup
                     { [repo |-> repo, number |-> number,
                        head |-> BranchName(Run(p).id), base |-> "main",
                        title |-> <<"[Submission] ", p.manifest.purple_agent_owner>>,
                        html_url |-> url, run_id |-> Run(p).id] }
              /\ proc' = [proc EXCEPT ![self] =
                             [q EXCEPT !.pc = "record_submitted", !.pr_url = url]]
           \/ Raise(self, q, "create_pull_request") /\ UNCHANGED pulls
        /\ UNCHANGED <<leaderboards, submissions, branches, commits, delivered>>

\* Lines 71-80
RecordSubmitted(self) ==
    LET p == proc[self] IN
    /\ p.kind = "workflow_run"
    /\ p.pc = "record_submitted"
    /\ \/ /\ InsertSubmission(self, p,
                 record_submission(Run(p).id,
                     p.leaderboard.repo_full_name, p.payload.repository.full_name,
                     "submitted", NoneStr, p.pr_url, p.results),
                 Ok(p.pr_url))
       \/ Raise(self, p, "create_submission") /\ UNCHANGED submissions
    /\ UNCHANGED <<leaderboards, github, delivered>>


\* ---------------------------------------------------------------- handle_installation
OkRegistered(registered) == [status |-> "ok", registered |-> registered]

\* Lines 23-28: which list of the payload is walked
Repositories(payload) ==
    IF "repositories" \in DOMAIN payload THEN payload.repositories
    ELSE payload.repositories_added

\* A loop that does not skip forks
NextRepo_ForksToo(repos, k) == k

\* Lines 32-34: the first repository at index >= k that is no fork
RECURSIVE NextRepo(_, _)
NextRepo(repos, k) ==
    IF k > Len(repos) THEN k
    ELSE IF Get(repos[k], "fork", FALSE) THEN NextRepo(repos, k + 1)
    ELSE k

\* Back at the head of the loop (a "continue", or the end of the body):
\* the next repository's read is issued, or the handler returns.
Advance(self, p) ==
    LET repos == Repositories(p.payload)
        next == NextRepo(repos, p.j + 1)
    IN  IF next > Len(repos)
        THEN Finish(self, p, OkRegistered(p.registered))
        ELSE proc' = [proc EXCEPT ![self] =
                         [p EXCEPT !.pc = "check_is_leaderboard", !.j = next,
                                   !.existing = None]]

\* Lines 17-39: up to the first await
StartInstallation(self, payload) ==
    /\ proc[self].kind = "idle"
    /\ delivered.installation < MaxInstallDeliveries
    /\ delivered' = [delivered EXCEPT !.installation = @ + 1]
    /\ LET p == [Idle EXCEPT !.kind = "installation", !.payload = payload]
           action == Get(payload, "action", NoneStr)
       IN  IF action \notin {"created", "added"}
           THEN Finish(self, p, Ignored(<<"action=", action>>))
           ELSE IF ~ ("repositories" \in DOMAIN payload
                        \/ "repositories_added" \in DOMAIN payload)
           THEN Finish(self, p, Ignored(<<"no repositories">>))
           ELSE Advance(self, p)
    /\ UNCHANGED <<tables, github>>

\* check_is_leaderboard (lines 60-70), then lines 39-43: the read of .github/workflows/runner.yml answers
\* with the file, with nothing, or raises (caught: False).
CheckIsLeaderboard(self) ==
    LET p == proc[self]
        repo == Repositories(p.payload)[p.j]
        q == [p EXCEPT !.calls = Append(@, Call("get_repo_contents",
                                   p.payload.installation.id, repo.full_name))]
        Saw(has_runner) ==
            [q EXCEPT !.seen = Append(@, [j |-> p.j, what |-> "has_runner",
                                          value |-> has_runner])]
    IN  /\ p.kind = "installation"
        /\ p.pc = "check_is_leaderboard"
        /\ \/ /\ proc' = [proc EXCEPT ![self] =
                             [Saw(TRUE) EXCEPT !.pc = "get_leaderboard"]]
           \* contents is None
           \/ Advance(self, Saw(FALSE))
           \* get_repo_contents raised: "except Exception: return False"
           \/ Advance(self, Saw(FALSE))
        /\ UNCHANGED <<tables, github, delivered>>

\* Lines 43-48: get_leaderboard_by_repo_id answers
GetLeaderboard(self) ==
    LET p == proc[self]
        repo == Repositories(p.payload)[p.j]
        rows == get_leaderboard_by_repo_id(repo.id)
        q == [p EXCEPT !.seen = Append(@,
                 [j |-> p.j, what |-> "registered",
                  value |-> \E row \in BagToSet(leaderboards) :
                                row.github_repo_id = repo.id])]
    IN  /\ p.kind = "installation"
        /\ p.pc = "get_leaderboard"
        /\ \/ \E existing \in rows :
                  IF existing.repo_full_name # repo.full_name
                  THEN proc' = [proc EXCEPT ![self] =
                                   [q EXCEPT !.pc = "update_name", !.existing = existing]]
                  ELSE Advance(self, [q EXCEPT !.existing = existing])
           \/ /\ rows = {}
              /\ proc' = [proc EXCEPT ![self] = [q EXCEPT !.pc = "create_leaderboard"]]
        /\ UNCHANGED <<tables, github, delivered>>

\* db.update_leaderboard_repo_name: the table after the UPDATE, which
\* rewrites every row of that repo id
Renamed(row, github_repo_id, repo_full_name) ==
    IF row.github_repo_id = github_repo_id
    THEN [row EXCEPT !.repo_full_name = repo_full_name]
    ELSE row

RECURSIVE RenamedRows(_, _, _)
RenamedRows(rows, github_repo_id, repo_full_name) ==
    IF rows = {} THEN EmptyBag
    ELSE LET row == CHOOSE r \in rows : TRUE IN
         [r \in {Renamed(row, github_repo_id, repo_full_name)} |-> leaderboards[row]]
             (+) RenamedRows(rows \ {row}, github_repo_id, repo_full_name)

update_leaderboard_repo_name(github_repo_id, repo_full_name) ==
    RenamedRows(BagToSet(leaderboards), github_repo_id, repo_full_name)

\* Lines 46-48
UpdateName(self) ==
    LET p == proc[self]
        repo == Repositories(p.payload)[p.j]
    IN  /\ p.kind = "installation"
        /\ p.pc = "update_name"
        /\ leaderboards' = update_leaderboard_repo_name(repo.id, repo.full_name)
        /\ Advance(self, [p EXCEPT !.updated = Append(@, repo)])
        /\ UNCHANGED <<submissions, github, delivered>>

\* db.create_leaderboard: the row the INSERT makes
create_leaderboard(github_repo_id, repo_full_name, installation_id) ==
    [github_repo_id |-> github_repo_id,
     repo_full_name |-> repo_full_name, installation_id |-> installation_id]

\* Lines 50-55
CreateLeaderboard(self) ==
    LET p == proc[self]
        repo == Repositories(p.payload)[p.j]
        row == create_leaderboard(repo.id, repo.full_name,
                                  p.payload.installation.id)
    IN  /\ p.kind = "installation"
        /\ p.pc = "create_leaderboard"
        /\ IF UniqueRepoIdConstraint /\ get_leaderboard_by_repo_id(repo.id) # {}
           THEN /\ Finish(self, p, Raised("UniqueViolationError"))
                /\ UNCHANGED leaderboards
           ELSE /\ leaderboards' = leaderboards (+) SetToBag({row})
                /\ Advance(self, [p EXCEPT !.registered = Append(@, repo.full_name),
                                           !.created = Append(@, row)])
        /\ UNCHANGED <<submissions, github, delivered>>

\* ---------------------------------------------------------------- the endpoint
\* main.github_webhook: the handler's result becomes a 200 response, an
\* exception a 500 one.
HttpStatus(result) == IF result.status = "exception" THEN 500 ELSE 200

\* Lines 49 and 52: JSONResponse(content=result, status_code=200), or
\* HTTPException(status_code=500, detail=str(e))
Response(result) ==
    IF result.status = "exception"
    THEN [status_code |-> HttpStatus(result), detail |-> result.detail]
    ELSE [status_code |-> HttpStatus(result), content |-> result]

Respond(self) ==
    /\ proc[self].pc = "done"
    /\ proc' = [proc EXCEPT ![self] = Idle]
    /\ UNCHANGED <<tables, github, delivered>>

Next ==
    \E self \in Procs :
        \/ \E payload \in RunPayloads : StartWorkflowRun(self, payload)
        \/ FindLeaderboard(self)
        \/ CheckDuplicate(self)
        \/ GetArtifacts(self)
        \/ DownloadArtifact(self)
        \/ RecordFailed(self)
        \/ RecordRejected(self)
        \/ CreateBranch(self)
        \/ CommitFiles(self)
        \/ CreatePullRequest(self)
        \/ RecordSubmitted(self)
        \/ \E payload \in InstallPayloads : StartInstallation(self, payload)
        \/ CheckIsLeaderboard(self)
        \/ GetLeaderboard(self)
        \/ UpdateName(self)
        \/ CreateLeaderboard(self)
        \/ Respond(self)

Spec == Init /\ [][Next]_vars

\* ================================================================ claims
IsDone(p) == p.pc = "done"
IsRun(p) == p.kind = "workflow_run"
IsInstall(p) == p.kind = "installation"

\* Rows of a table that satisfy a condition, copies counted
RowCount(table, rows) == BagCardinality([row \in rows |-> table[row]])
SubmissionCount(run_id) == RowCount(submissions, get_submission_by_run_id(run_id))
LeaderboardCount(repo_id) ==
    RowCount(leaderboards,
             { row \in BagToSet(leaderboards) : row.github_repo_id = repo_id })

\* The GitHub calls of the pipeline
PublishOps == {"create_branch", "commit_files", "create_pull_request"}
ArtifactOps == {"get_artifacts", "download_artifact"}
Ops(p) == { p.calls[k].op : k \in 1..Len(p.calls) }

\* A completed, successful run that references workflows: the events that
\* can get as far as the idempotency check
Eligible(payload) ==
    /\ payload.action = "completed"
    /\ payload.workflow_run.conclusion = "success"
    /\ \E k \in 1..Len(payload.workflow_run.referenced_workflows) :
           Len(Split(payload.workflow_run.referenced_workflows[k].path)) >= 2

\* C1: in every reachable state the submissions table holds at most one row
\* for each workflow run id.
C1_AtMostOneSubmissionPerRun ==
    \A r \in RunIds : SubmissionCount(r) <= 1

\* C2 (as claimed): a delivery of a completed, successful event that arrives
\* when a Submission for its run id exists returns ignored("duplicate"),
\* inserts nothing and makes no GitHub call.
C2_RedeliveryIsDuplicate ==
    \A a \in Procs :
        LET p == proc[a] IN
        (IsRun(p) /\ IsDone(p) /\ p.dupAtStart /\ Eligible(p.payload))
            => /\ p.result = Ignored(<<"duplicate">>)
               /\ p.inserted = <<>>
               /\ p.calls = <<>>

\* C2 (amended): such a delivery returns ignored, with reason "duplicate"
\* whenever find_leaderboard still resolves a leaderboard and "no registered
\* leaderboard" otherwise; it inserts nothing and makes no GitHub call.
C2_RedeliveryIsIgnored ==
    \A a \in Procs :
        LET p == proc[a] IN
        (IsRun(p) /\ p.dupAtStart /\ Eligible(p.payload))
            => /\ p.pc \in {"find_leaderboard", "check_duplicate", "done"}
               /\ p.inserted = <<>>
               /\ p.calls = <<>>
               /\ IsDone(p) =>
                     p.result = IF p.leaderboard # None
                                THEN Ignored(<<"duplicate">>)
                                ELSE Ignored(<<"no registered leaderboard">>)

C2_Witness ==
    \E a \in Procs :
        LET p == proc[a] IN
        /\ IsRun(p) /\ IsDone(p) /\ p.dupAtStart /\ Eligible(p.payload)
        /\ p.result = Ignored(<<"duplicate">>)

\* C3: of two deliveries of the same run in flight together, one records a
\* Submission and the other ends with ignored("duplicate").
C3_RaceEndsInDuplicate ==
    \A a, b \in Procs :
        LET p == proc[a]
            q == proc[b]
        IN  ( /\ a # b
              /\ IsRun(p) /\ IsDone(p) /\ IsRun(q) /\ IsDone(q)
              /\ p.payload = q.payload
              /\ p.inserted # <<>>
              /\ q.leaderboard # None
              /\ q.result.status # "exception" )
            => /\ q.result = Ignored(<<"duplicate">>)
               /\ q.inserted = <<>>

\* An exception that a collaborator call raised (not one the handler's own
\* code raised on the documents it was given)
CollaboratorFailed(p) ==
    /\ p.result.status = "exception"
    /\ p.result.detail \notin {"KeyError", "JSONDecodeError"}

\* The manifest fields create_submission_pr and format_pr_body read
PublisherFields ==
    {"purple_agent_owner", "purple_agent_repo", "run_id", "run_url", "timestamp"}

\* The run got as far as comparing the manifest's target with the leaderboard
Compared(p) == IsRun(p) /\ p.leaderboard # None /\ p.manifest # None
TargetMatches(p) ==
    /\ "target_leaderboard" \in DOMAIN p.manifest
    /\ p.manifest.target_leaderboard = p.leaderboard.repo_full_name

\* What the success path leaves behind: ok(pr_url), one inserted row with
\* status submitted and that URL, which is the URL of the pull request opened
\* from the run's branch on the leaderboard's repository.
Submitted(p) ==
    /\ p.result.status = "ok"
    /\ Len(p.inserted) = 1
    /\ p.inserted[1].workflow_run_id = p.payload.workflow_run.id
    /\ p.inserted[1].status = "submitted"
    /\ p.inserted[1].pr_url = p.result.pr_url
    /\ BagIn(p.inserted[1], submissions)
    /\ \E pr \in pulls :
           /\ pr.html_url = p.result.pr_url
           /\ pr.head = BranchName(p.payload.workflow_run.id)
           /\ pr.repo = RepoOfName(p.leaderboard.repo_full_name)

\* C4 (as claimed): resolvable leaderboard, no prior Submission, a present
\* artifact and a matching target, no collaborator call failing: the handler
\* returns ok(pr_url) and creates one submitted row with that URL.
C4_MatchingTargetSubmits ==
    \A a \in Procs :
        LET p == proc[a] IN
        (IsDone(p) /\ Compared(p) /\ TargetMatches(p) /\ ~CollaboratorFailed(p))
            => Submitted(p)

\* C4 (amended): the same, for a manifest that carries every field the
\* publisher reads.
C4_ValidManifestSubmits ==
    \A a \in Procs :
        LET p == proc[a] IN
        ( /\ IsDone(p) /\ Compared(p) /\ TargetMatches(p)
          /\ PublisherFields \subseteq DOMAIN p.manifest
          /\ ~CollaboratorFailed(p) )
            => Submitted(p)

C4_Witness ==
    \E a \in Procs :
        LET p == proc[a] IN
        /\ IsDone(p) /\ Compared(p) /\ TargetMatches(p)
        /\ PublisherFields \subseteq DOMAIN p.manifest
        /\ Submitted(p)

\* C5: when the manifest's target (an absent one included) differs from the
\* resolved leaderboard's full name, the handler returns rejected("target
\* mismatch"), inserts one row with status rejected, error "Target mismatch"
\* and no PR number or URL, and calls none of create_branch, commit_files,
\* create_pull_request (the insert itself not raising).
C5_TargetMismatchRejected ==
    \A a \in Procs :
        LET p == proc[a] IN
        (IsDone(p) /\ Compared(p) /\ ~TargetMatches(p) /\ ~CollaboratorFailed(p))
            => /\ p.result = Rejected(<<"target mismatch">>)
               /\ Len(p.inserted) = 1
               /\ p.inserted[1].workflow_run_id = p.payload.workflow_run.id
               /\ p.inserted[1].status = "rejected"
               /\ p.inserted[1].error_message = "Target mismatch"
               /\ p.inserted[1].pr_url = None
               /\ p.inserted[1].pr_number = None
               /\ BagIn(p.inserted[1], submissions)
               /\ Ops(p) \cap PublishOps = {}

C5_Witness ==
    \E a \in Procs :
        LET p == proc[a] IN
        /\ IsDone(p) /\ Compared(p)
        /\ "target_leaderboard" \notin DOMAIN p.manifest
        /\ p.result = Rejected(<<"target mismatch">>)

\* C6: when the artifact list has no entry named exactly
\* "agentbeats-submission", nothing is downloaded, one row with status failed
\* and error "No artifact found" is inserted, no branch / commit / pull
\* request call is made and the handler returns error("no artifact") (the
\* insert itself not raising).
NoSubmissionArtifact(answer) ==
    \A k \in 1..Len(answer.artifacts) :
        answer.artifacts[k].name # "agentbeats-submission"

C6_NoArtifactRecordedFailed ==
    \A a \in Procs :
        LET p == proc[a] IN
        ( /\ IsRun(p) /\ IsDone(p) /\ p.artifacts # None
          /\ NoSubmissionArtifact(p.artifacts)
          /\ ~CollaboratorFailed(p) )
            => /\ p.result = Error(<<"no artifact">>)
               /\ "download_artifact" \notin Ops(p)
               /\ Ops(p) \cap PublishOps = {}
               /\ Len(p.inserted) = 1
               /\ p.inserted[1].workflow_run_id = p.payload.workflow_run.id
               /\ p.inserted[1].status = "failed"
               /\ p.inserted[1].error_message = "No artifact found"
               /\ BagIn(p.inserted[1], submissions)

C6_Witness ==
    \E a \in Procs :
        LET p == proc[a] IN
        /\ IsRun(p) /\ IsDone(p) /\ p.artifacts # None
        /\ Len(p.artifacts.artifacts) = 1
        /\ NoSubmissionArtifact(p.artifacts)
        /\ p.result = Error(<<"no artifact">>)

\* C7: an invocation of handle_workflow_run that ends in ignored has inserted
\* and updated nothing and has made no GitHub call.
C7_IgnoredHasNoEffect ==
    \A a \in Procs :
        LET p == proc[a] IN
        (IsRun(p) /\ IsDone(p) /\ p.result.status = "ignored")
            => /\ p.inserted = <<>>
               /\ p.created = <<>>
               /\ p.updated = <<>>
               /\ p.calls = <<>>

C7_Witness ==
    \E a \in Procs :
        /\ IsRun(proc[a]) /\ IsDone(proc[a])
        /\ proc[a].result = Ignored(<<"duplicate">>)
        /\ submissions # EmptyBag

\* ---------------------------------------------------------------- C8
\* find_leaderboard against a table that does not change: the table is drawn
\* from the tables the registrar can leave behind, the referenced workflows
\* from every list of up to MaxRefs paths.
MaxRefs == 2

FindPaths == {PathSolo, PathAX, PathBY, PathAZ}

FindLists ==
    UNION { [1..n -> { Ref(path) : path \in FindPaths }] : n \in 0..MaxRefs }

FindPayloads == { RunPayload("completed", "success", 1, refs) : refs \in FindLists }

FindRows ==
    { create_leaderboard(1, NameAX, 10),
      create_leaderboard(2, NameBY, 10),
      create_leaderboard(3, NameAX, 11) }

InitFind ==
    /\ leaderboards \in { SetToBag(rows) : rows \in SUBSET FindRows }
    /\ submissions = EmptyBag
    /\ branches = {}
    /\ commits = {}
    /\ pulls = {}
    /\ proc = [p \in Procs |-> Idle]
    /\ delivered = [workflow_run |-> 0, installation |-> 0]

NextFind ==
    \E self \in Procs :
        \/ \E payload \in FindPayloads : StartWorkflowRun(self, payload)
        \/ FindLeaderboard(self)

SpecFind == InitFind /\ [][NextFind]_vars

\* The references of a run, read as the claim reads them
RefParts(p, k) == Split(p.payload.workflow_run.referenced_workflows[k].path)
HasOwnerRepo(p, k) == Len(RefParts(p, k)) >= 2
OwnerRepoOf(p, k) == RefParts(p, k)[1] \o <<"/">> \o RefParts(p, k)[2]
Matches(p, k) ==
    /\ HasOwnerRepo(p, k)
    /\ \E row \in BagToSet(leaderboards) : row.repo_full_name = OwnerRepoOf(p, k)

\* The owner/repo names of the references 1..h that have two segments, in order
RECURSIVE NamesUpTo(_, _)
NamesUpTo(p, h) ==
    IF h = 0 THEN <<>>
    ELSE NamesUpTo(p, h - 1)
             \o (IF HasOwnerRepo(p, h) THEN <<OwnerRepoOf(p, h)>> ELSE <<>>)

FindReturned(p) ==
    /\ IsRun(p)
    /\ \/ p.pc = "check_duplicate"
       \/ IsDone(p) /\ p.result = Ignored(<<"no registered leaderboard">>)

\* C8: find_leaderboard returns the leaderboard of the first reference whose
\* owner/repo is a registered full name, looks up exactly the two-segment
\* references up to that one, and returns none exactly when none matches.
C8_FirstMatchWins ==
    \A a \in Procs :
        LET p == proc[a]
            n == Len(p.payload.workflow_run.referenced_workflows)
            hits == { k \in 1..n : Matches(p, k) }
        IN  FindReturned(p) =>
                IF hits = {}
                THEN /\ p.leaderboard = None
                     /\ p.looked = NamesUpTo(p, n)
                ELSE LET h == CHOOSE k \in hits : \A m \in hits : k <= m IN
                     /\ p.leaderboard # None
                     /\ p.leaderboard.repo_full_name = OwnerRepoOf(p, h)
                     /\ BagIn(p.leaderboard, leaderboards)
                     /\ p.looked = NamesUpTo(p, h)

\* a hit on the second reference of two registered ones, the first skipped
\* over a miss, nothing after it looked up
C8_Witness ==
    \E a \in Procs :
        LET p == proc[a] IN
        /\ FindReturned(p)
        /\ p.payload.workflow_run.referenced_workflows = <<Ref(PathAZ), Ref(PathBY)>>
        /\ p.leaderboard # None
        /\ p.leaderboard.repo_full_name = NameBY
        /\ Cardinality(BagToSet(leaderboards)) = 3

Met(p, j, what, value) ==
    \E k \in 1..Len(p.seen) : p.seen[k] = [j |-> j, what |-> what, value |-> value]

\* Repository j of the payload is no fork, its workflow file was read, and
\* its id was not registered when the handler looked it up
Qualifies(p, j) ==
    /\ ~ Repositories(p.payload)[j].fork
    /\ Met(p, j, "has_runner", TRUE)
    /\ Met(p, j, "registered", FALSE)

RECURSIVE QualifyingRows(_, _)
QualifyingRows(p, j) ==
    IF j > Len(Repositories(p.payload)) THEN <<>>
    ELSE LET repo == Repositories(p.payload)[j] IN
         (IF Qualifies(p, j)
          THEN << [github_repo_id |-> repo.id, repo_full_name |-> repo.full_name,
                   installation_id |-> p.payload.installation.id] >>
          ELSE <<>>) \o QualifyingRows(p, j + 1)

Registers(payload) ==
    /\ payload.action \in {"created", "added"}
    /\ \/ "repositories" \in DOMAIN payload
       \/ "repositories_added" \in DOMAIN payload

\* C10: with action created or added, handle_installation inserts a row for
\* exactly the listed repositories that are no forks, whose workflow file
\* read returned content and whose id it found unregistered; every listed
\* non-fork repository is read, whatever the earlier reads gave; registered
\* is the full names of the rows inserted; any other action inserts and
\* updates nothing.
C10_RegistersQualifying ==
    \A a \in Procs :
        LET p == proc[a] IN
        (IsInstall(p) /\ IsDone(p)) =>
            IF Registers(p.payload)
            THEN /\ p.created = QualifyingRows(p, 1)
                 /\ p.result = OkRegistered([k \in 1..Len(p.created) |->
                                                p.created[k].repo_full_name])
                 /\ \A k \in 1..Len(p.created) :
                        LeaderboardCount(p.created[k].github_repo_id) >= 1
                 /\ \A j \in 1..Len(Repositories(p.payload)) :
                        ~ Repositories(p.payload)[j].fork
                            => \E v \in BOOLEAN : Met(p, j, "has_runner", v)
            ELSE /\ p.result.status = "ignored"
                 /\ p.created = <<>>
                 /\ p.updated = <<>>

\* the first repository's read failed, the second was registered
C10_Witness ==
    \E a \in Procs :
        LET p == proc[a] IN
        /\ IsInstall(p) /\ IsDone(p) /\ Registers(p.payload)
        /\ Len(Repositories(p.payload)) = 2
        /\ Met(p, 1, "has_runner", FALSE)
        /\ Len(p.created) = 1
        /\ p.result = OkRegistered(<<NameBY>>)

\* ---------------------------------------------------------------- C11, C12
\* C11: an invocation that got past the idempotency check leaves the handler
\* either by an exception, having inserted no Submission row, the exception
\* reaching the endpoint, which answers 5xx with the error's text; or by
\* error / rejected / ok, having inserted its one row.  No exception of the
\* steps after the check is turned into a returned result.
C11_ExceptionsPropagate ==
    \A a \in Procs :
        LET p == proc[a] IN
        (IsRun(p) /\ IsDone(p) /\ p.calls # <<>>) =>
            IF p.result.status = "exception"
            THEN /\ p.inserted = <<>>
                 /\ Response(p.result).status_code >= 500
                 /\ Response(p.result).status_code <= 599
                 /\ Response(p.result).detail = p.result.detail
            ELSE /\ p.result.status \in {"error", "rejected", "ok"}
                 /\ Len(p.inserted) = 1
                 /\ Response(p.result).status_code = 200

\* the final insert raised after the pull request was opened
C11_Witness ==
    \E a \in Procs :
        LET p == proc[a] IN
        /\ IsRun(p) /\ IsDone(p)
        /\ p.result = Raised("create_submission")
        /\ p.pr_url # None
        /\ p.inserted = <<>>
        /\ SubmissionCount(p.payload.workflow_run.id) = 0

\* The publish calls of an invocation, in the order it made them
PublishCalls(p) == SelectSeq(p.calls, LAMBDA c : c.op \in PublishOps)
PublishOrder == <<"create_branch", "commit_files", "create_pull_request">>

\* The publish call that raised, if the invocation ended in one
FailedPublishOp(p) ==
    IF p.result.detail \in {"create_branch", "Reference already exists"} THEN 1
    ELSE IF p.result.detail = "commit_files" THEN 2
    ELSE IF p.result.detail = "create_pull_request" THEN 3
    ELSE 0

PublishedInOrder ==
    /\ \A a \in Procs :
           LET p == proc[a]
               made == PublishCalls(p)
           IN  IsRun(p) =>
                   /\ Len(made) <= 3
                   /\ \A k \in 1..Len(made) : made[k].op = PublishOrder[k]
                   /\ p.pr_url # None => Len(made) = 3
                   /\ (IsDone(p) /\ p.result.status = "exception"
                              /\ FailedPublishOp(p) > 0)
                          => /\ Len(made) = FailedPublishOp(p)
                             /\ p.pr_url = None
    \* a commit is made to a branch that was created, a pull request is
    \* opened from a branch that was committed to, into main
    /\ \A c \in commits : c.branch \in branches
    /\ \A pr \in pulls :
           /\ pr.base = "main"
           /\ \E c \in commits : c.branch = [repo |-> pr.repo, name |-> pr.head]

NothingRolledBack ==
    /\ branches \subseteq branches'
    /\ commits \subseteq commits'
    /\ pulls \subseteq pulls'

\* C12: create_submission_pr calls create_branch, commit_files and
\* create_pull_request in that order; after a call that failed no later one
\* is made and no URL is returned; no step ever removes a branch, a commit or
\* a pull request.
C12_PublishInOrder == []PublishedInOrder /\ [][NothingRolledBack]_vars

\* the commit failed: the branch stays, nothing was committed to it
C12_Witness ==
    \E a \in Procs :
        LET p == proc[a] IN
        /\ IsRun(p) /\ IsDone(p)
        /\ p.result = Raised("commit_files")
        /\ Len(PublishCalls(p)) = 2
        /\ BranchKey(p.leaderboard.repo_full_name,
                     BranchName(p.payload.workflow_run.id)) \in branches
        /\ commits = {}

\* ---------------------------------------------------------------- C13
\* The branch named after run id r, on the repository behind a full name
RunBranch(repo_full_name, r) ==
    [repo |-> RepoOfName(repo_full_name), name |-> <<"agentbeats/submission-", r>>]

\* C13 (as claimed): at most one branch exists per run id.
C13_OneBranchPerRun ==
    \A r \in RunIds :
        Cardinality({ b \in branches : b.name = <<"agentbeats/submission-", r>> }) <= 1

\* An invocation that holds the branch it created
HoldsBranch(p) ==
    IsRun(p) /\ p.pc \in {"commit_files", "create_pull_request", "record_submitted"}

BranchesNamedByRun ==
    /\ \A b \in branches : \E r \in RunIds : b.name = <<"agentbeats/submission-", r>>
    /\ \A a \in Procs :
           HoldsBranch(proc[a]) =>
               RunBranch(proc[a].leaderboard.repo_full_name,
                         proc[a].payload.workflow_run.id) \in branches
    \* a branch is held by one invocation only: never by two runs, never by
    \* two deliveries of one run
    /\ \A a, b \in Procs :
           ( /\ a # b /\ HoldsBranch(proc[a]) /\ HoldsBranch(proc[b])
             /\ RepoOfName(proc[a].leaderboard.repo_full_name)
                    = RepoOfName(proc[b].leaderboard.repo_full_name) )
               => proc[a].payload.workflow_run.id # proc[b].payload.workflow_run.id

\* A step that changes the branches is the create_branch of one invocation,
\* which adds the branch named after its run id to the repository of the
\* leaderboard it resolved from its references, a branch that was not there.
BranchCreatedForRun ==
    branches' # branches =>
        \E self \in Procs :
            LET p == proc[self]
                refs == p.payload.workflow_run.referenced_workflows
                key == RunBranch(p.leaderboard.repo_full_name, p.payload.workflow_run.id)
            IN  /\ IsRun(p) /\ p.pc = "create_branch"
                /\ proc'[self].pc = "commit_files"
                /\ \E k \in 1..Len(refs) :
                       /\ Len(Split(refs[k].path)) >= 2
                       /\ RefName(refs[k]) = p.leaderboard.repo_full_name
                /\ key \notin branches
                /\ branches' = branches \cup {key}

\* C13 (amended): every branch the pipeline creates for run id r is named
\* agentbeats/submission-r on the resolved leaderboard's repository and is
\* created once, so each leaderboard repository holds at most one branch per
\* run id and two different run ids never share a branch.
C13_OneBranchPerRunAndRepo == []BranchesNamedByRun /\ [][BranchCreatedForRun]_vars

\* a delivery of a run whose branch exists is refused the branch
C13_Witness ==
    \E a \in Procs :
        LET p == proc[a] IN
        /\ IsRun(p) /\ IsDone(p)
        /\ p.result = Raised("Reference already exists")
        /\ RunBranch(p.leaderboard.repo_full_name, p.payload.workflow_run.id) \in branches

\* ---------------------------------------------------------------- C14
\* The leaderboards table with the full names left out of its rows
RECURSIVE WithoutNames(_, _)
WithoutNames(table, rows) ==
    IF rows = {} THEN EmptyBag
    ELSE LET row == CHOOSE r \in rows : TRUE IN
         [x \in {[github_repo_id |-> row.github_repo_id,
                  installation_id |-> row.installation_id]} |-> table[row]]
             (+) WithoutNames(table, rows \ {row})

IsInsert(old, new) ==
    \E row \in BagToSet(new) : new = old (+) SetToBag({row})

\* The rows are the same but for full names, and no name changed except to
\* the one name given to the rows of one repository id
IsRename(old, new) ==
    /\ WithoutNames(old, BagToSet(old)) = WithoutNames(new, BagToSet(new))
    /\ \E id \in { row.github_repo_id : row \in BagToSet(old) } :
       \E name \in { row.repo_full_name : row \in BagToSet(new) } :
           /\ \A row \in BagToSet(old) :
                  row.github_repo_id # id => new[row] = old[row]
           /\ \A row \in BagToSet(new) :
                  row.github_repo_id = id => row.repo_full_name = name

WriteOnce ==
    /\ submissions' = submissions \/ IsInsert(submissions, submissions')
    /\ \A row \in BagToSet(submissions) :
           BagIn(row, submissions') /\ submissions'[row] >= submissions[row]
    /\ \/ leaderboards' = leaderboards
       \/ IsInsert(leaderboards, leaderboards')
       \/ IsRename(leaderboards, leaderboards')

\* C14: no step updates or deletes a Submission row: every row stays in the
\* table as it was inserted; a step changes the submissions table by one
\* insert, and the leaderboards table by one insert or by giving the rows
\* of one repository id a new full name.
C14_SubmissionsWriteOnce == [][WriteOnce]_vars

\* a leaderboard was renamed after a Submission naming it was recorded: the
\* row keeps the name it was written with
C14_Witness ==
    /\ \E a \in Procs :
           IsInstall(proc[a]) /\ IsDone(proc[a]) /\ proc[a].updated # <<>>
    /\ \E row \in BagToSet(submissions) :
           /\ row.leaderboard_repo = NameAX
           /\ get_leaderboard_by_repo_name(NameAX) = {}
           /\ get_leaderboard_by_repo_name(NameAZ) # {}

\* ---------------------------------------------------------------- C15
\* parse_artifact on its own: every archive of up to MaxEntries members, the
\* names with and without a path or a prefix, several members of one name
\* included; a JSON member holds a document or text that is no JSON.
MaxEntries == 3

DocA == [score |-> 1]
DocB == [score |-> 2]

JsonNames ==
    { <<"results.json">>, <<"run", "/", "results.json">>, <<"old-", "results.json">>,
      <<"manifest.json">>, <<"run", "/", "manifest.json">> }
TomlNames == { <<"scenario.toml">>, <<"run", "/", "scenario.toml">> }
OtherNames == { <<"notes.txt">> }

ParseEntries ==
    { Entry(name, content) : name \in JsonNames, content \in {Json(DocA), Json(DocB), BadJson} }
    \cup { Entry(name, content) : name \in TomlNames, content \in {Text("a=1"), Text("b=2")} }
    \cup { Entry(name, Text("notes")) : name \in OtherNames }

ParseInputs == UNION { [1..n -> ParseEntries] : n \in 0..MaxEntries }

Parsing(zf) == [Idle EXCEPT !.kind = "parse_artifact", !.pc = "parse_artifact",
                            !.payload = Zip(zf)]

InitParse ==
    /\ leaderboards = EmptyBag
    /\ submissions = EmptyBag
    /\ branches = {}
    /\ commits = {}
    /\ pulls = {}
    /\ proc \in { [p \in Procs |-> IF p = 1 THEN Parsing(zf) ELSE Idle] : zf \in ParseInputs }
    /\ delivered = [workflow_run |-> 0, installation |-> 0]

\* Line 57: results, manifest, scenario = parse_artifact(artifact_data)
ParseArtifact(self) ==
    LET p == proc[self]
        parsed == parse_artifact(p.payload.zip)
    IN  /\ p.kind = "parse_artifact"
        /\ p.pc = "parse_artifact"
        /\ IF parsed.raises
           THEN Finish(self, p, Raised("JSONDecodeError"))
           ELSE Finish(self, [p EXCEPT !.results = parsed.results,
                                       !.manifest = parsed.manifest,
                                       !.scenario = parsed.scenario],
                       [status |-> "returned"])
        /\ UNCHANGED <<tables, github, delivered>>

NextParse == \E self \in Procs : ParseArtifact(self)

SpecParse == InitParse /\ [][NextParse]_vars

\* The last member whose name ends with the suffix, 0 when there is none
LastMatch(zf, suffix) ==
    LET hits == { k \in 1..Len(zf) : EndsWith(zf[k].name, suffix) }
    IN  IF hits = {} THEN 0 ELSE CHOOSE k \in hits : \A m \in hits : m <= k

Parsed(p) == p.kind = "parse_artifact" /\ IsDone(p)

\* What the claim says of the three documents
LastMatchesReturned(p) ==
    LET zf == p.payload.zip
        r == LastMatch(zf, <<"results.json">>)
        m == LastMatch(zf, <<"manifest.json">>)
        s == LastMatch(zf, <<"scenario.toml">>)
    IN  /\ p.result.status = "returned"
        /\ p.results = IF r = 0 THEN EmptyDict ELSE zf[r].content.doc
        /\ p.manifest = IF m = 0 THEN EmptyDict ELSE zf[m].content.doc
        /\ p.scenario = IF s = 0 THEN "" ELSE zf[s].content.text

\* The last results and manifest members, if any, hold JSON
LastAreJson(zf) ==
    \A suffix \in {<<"results.json">>, <<"manifest.json">>} :
        LastMatch(zf, suffix) > 0 => zf[LastMatch(zf, suffix)].content.kind = "json"

\* Every member that json.loads is given holds JSON
AllAreJson(zf) ==
    \A k \in 1..Len(zf) :
        (EndsWith(zf[k].name, <<"results.json">>) \/ EndsWith(zf[k].name, <<"manifest.json">>))
            => ZipRead(zf, zf[k].name, Len(zf)).kind = "json"

Registered(lb) ==
    \E row \in BagToSet(leaderboards) :
        /\ row.github_repo_id = lb.github_repo_id
        /\ row.installation_id = lb.installation_id

ResolvedFromReferences(p) ==
    /\ p.leaderboard # None
    /\ Registered(p.leaderboard)
    /\ \E k \in 1..Len(p.payload.workflow_run.referenced_workflows) :
           /\ HasOwnerRepo(p, k)
           /\ OwnerRepoOf(p, k) = p.leaderboard.repo_full_name

\* C16: an invocation that made a publish call (branch, commit or pull
\* request) holds a leaderboard L that it resolved from one of the run's
\* referenced workflow paths and whose full name, as read, is the
\* manifest's target_leaderboard; each of its publish calls names L's
\* repository and carries L's installation id, while its artifact calls name
\* the submitting repository and carry the event's installation id; every
\* pull request was opened by such calls on a registered leaderboard.
C16_PublishesOnlyOnTarget ==
    /\ \A a \in Procs :
           LET p == proc[a] IN
           (IsRun(p) /\ Ops(p) \cap PublishOps # {}) =>
               /\ ResolvedFromReferences(p)
               /\ p.manifest # None
               /\ "target_leaderboard" \in DOMAIN p.manifest
               /\ p.manifest.target_leaderboard = p.leaderboard.repo_full_name
               /\ \A k \in 1..Len(p.calls) :
                      IF p.calls[k].op \in PublishOps
                      THEN /\ p.calls[k].repo = p.leaderboard.repo_full_name
                           /\ p.calls[k].installation_id = p.leaderboard.installation_id
                      ELSE /\ p.calls[k].repo = p.payload.repository.full_name
                           /\ p.calls[k].installation_id = p.payload.installation.id
    /\ \A pr \in pulls :
           \E row \in BagToSet(leaderboards) : row.github_repo_id = pr.repo

\* a pull request opened on the leaderboard named by the third reference,
\* with the leaderboard's installation id, which is not the submitter's
C16_Witness ==
    \E a \in Procs :
        LET p == proc[a] IN
        /\ IsRun(p) /\ p.pr_url # None
        /\ Len(p.payload.workflow_run.referenced_workflows) = 3
        /\ p.leaderboard.repo_full_name = NameAX
        /\ p.manifest.target_leaderboard = NameAX
        /\ p.leaderboard.installation_id # p.payload.installation.id
        /\ \E pr \in pulls : pr.html_url = p.pr_url /\ pr.repo = p.leaderboard.github_repo_id

\* ---------------------------------------------------------------- C17
\* C17: the row recorded on the success path stores the results document
\* parse_artifact extracted, the empty object of an archive without a
\* results.json member included.
C17_StoredResultsAreTheDocument ==
    \A a \in Procs :
        LET p == proc[a] IN
        (IsRun(p) /\ IsDone(p) /\ p.result.status = "ok") =>
            /\ Len(p.inserted) = 1
            /\ p.inserted[1].status = "submitted"
            /\ p.inserted[1].results_json = Json(p.results)

\* ---------------------------------------------------------------- C18
\* The pipeline on its own, against a table in which a/x is registered: the
\* state an installation event leaves behind.
InitLive ==
    /\ leaderboards = SetToBag({create_leaderboard(1, NameAX, 10)})
    /\ submissions = EmptyBag
    /\ branches = {}
    /\ commits = {}
    /\ pulls = {}
    /\ proc = [p \in Procs |-> Idle]
    /\ delivered = [workflow_run |-> 0, installation |-> 0]

\* The steps of a delivery after the event arrived
Continue(self) ==
    \/ FindLeaderboard(self)
    \/ CheckDuplicate(self)
    \/ GetArtifacts(self)
    \/ DownloadArtifact(self)
    \/ RecordFailed(self)
    \/ RecordRejected(self)
    \/ CreateBranch(self)
    \/ CommitFiles(self)
    \/ CreatePullRequest(self)
    \/ RecordSubmitted(self)
    \/ Respond(self)

NextLive ==
    \E self \in Procs :
        \/ \E payload \in RunPayloads : StartWorkflowRun(self, payload)
        \/ Continue(self)

\* The event loop resumes a coroutine whose awaited call has answered, and
\* every awaited call answers (with a value or an exception): a step of a
\* delivery that is enabled is eventually taken.
SpecLive == InitLive /\ [][NextLive]_vars /\ \A self \in Procs : WF_vars(Continue(self))

\* The delivery resolved a leaderboard and found no Submission for its run
PastDuplicateCheck(a) == IsRun(proc[a]) /\ proc[a].pc = "get_artifacts"

\* The handler returned error, rejected or ok with its row in the table
Recorded(p) ==
    /\ p.result.status \in {"error", "rejected", "ok"}
    /\ Len(p.inserted) = 1
    /\ p.inserted[1].workflow_run_id = p.payload.workflow_run.id
    /\ BagIn(p.inserted[1], submissions)

\* The archive could not be parsed, or its manifest matches the target but
\* lacks a field the publisher reads
Malformed(p) ==
    \/ p.result = Raised("JSONDecodeError")
    \/ /\ p.manifest # None
       /\ TargetMatches(p)
       /\ ~ (PublisherFields \subseteq DOMAIN p.manifest)

\* C18 (as claimed): a delivery past the idempotency check ends, unless a
\* collaborator call fails, in error, rejected or ok with a Submission row
\* for its run id recorded.
C18_EndsRecorded ==
    \A a \in Procs :
        PastDuplicateCheck(a) ~>
            (IsDone(proc[a]) /\ (CollaboratorFailed(proc[a]) \/ Recorded(proc[a])))

\* C18 (amended): the same, for a delivery whose archive, if one is
\* downloaded, parses and whose manifest, if it names the resolved
\* leaderboard, carries every field the publisher reads.
C18_EndsRecordedIfWellFormed ==
    \A a \in Procs :
        PastDuplicateCheck(a) ~>
            (IsDone(proc[a]) /\ ( \/ CollaboratorFailed(proc[a])
                                  \/ Malformed(proc[a])
                                  \/ Recorded(proc[a]) ))

\* a delivery that ended ok with its row recorded, after another one ended
\* with a failed or rejected row
C18_Witness ==
    \E a \in Procs :
        /\ IsRun(proc[a]) /\ IsDone(proc[a]) /\ Recorded(proc[a])
        /\ proc[a].result.status = "ok"
        /\ \E row \in BagToSet(submissions) : row.status \in {"failed", "rejected"}

\* ---------------------------------------------------------------- C19, C20
\* The pull requests opened from the branch of run id r
PullsOfRun(r) == { pr \in pulls : pr.head = <<"agentbeats/submission-", r>> }

\* C19: for every Submission row with status submitted, a pull request from
\* the branch agentbeats/submission-<run id> into main has been opened on the
\* repository the row names, and the row's PR URL is that pull request's.
C19_SubmittedHasPullRequest ==
    \A row \in BagToSet(submissions) :
        row.status = "submitted" =>
            \E pr \in PullsOfRun(row.workflow_run_id) :
                /\ pr.base = "main"
                /\ pr.repo = RepoOfName(row.leaderboard_repo)
                /\ pr.html_url = row.pr_url

\* a submitted row with its pull request, and a pull request of another run
\* that has no row (its final insert failed)
C19_Witness ==
    /\ \E row \in BagToSet(submissions) : row.status = "submitted"
    /\ \E pr \in pulls : get_submission_by_run_id(pr.run_id) = {}
    /\ \E a \in Procs : IsDone(proc[a]) /\ proc[a].result = Raised("create_submission")
                            /\ proc[a].pr_url # None

\* C20 (as claimed): at most one pull request is ever opened per workflow
\* run id (the collaborator refusing to create a branch that exists).
C20_OnePullRequestPerRun ==
    \A r \in RunIds : Cardinality(PullsOfRun(r)) <= 1

\* C20 (amended): on each leaderboard repository at most one pull request is
\* ever opened per workflow run id, and it is opened from that run's branch.
C20_OnePullRequestPerRunAndRepo ==
    /\ \A pr \in pulls : pr \in PullsOfRun(pr.run_id)
    /\ \A pr1, pr2 \in pulls :
           (pr1.run_id = pr2.run_id /\ pr1.repo = pr2.repo) => pr1 = pr2

\* a redelivery after the final insert failed: no Submission stops it at the
\* idempotency check, the existing branch stops it before a second pull request
C20_Witness ==
    \E a \in Procs :
        LET p == proc[a] IN
        /\ IsRun(p) /\ IsDone(p)
        /\ p.result = Raised("Reference already exists")
        /\ SubmissionCount(p.payload.workflow_run.id) = 0
        /\ \E pr \in PullsOfRun(p.payload.workflow_run.id) :
               pr.repo = RepoOfName(p.leaderboard.repo_full_name)

====
